---- MODULE Spec2Model ----
(***************************************************************************)
(* ros2bag_tools: the `overlap` verb (verb/overlap.py) and the output path *)
(* policy of the `split` verb (verb/split.py).                             *)
(*                                                                         *)
(* One run of OverlapVerb.main, or of SplitVerb.main, over a small file    *)
(* system.  Directories are  *)
(* paths (sequences of names); a bag directory holds a metadata.yaml, its  *)
(* storage files and the records stored in them.  Record timestamps are    *)
(* integer nanoseconds, written as offsets from an epoch base that is a    *)
(* multiple of 0.5 s and lies in [2^60, 2^61) ns (2006..2043); datetime    *)
(* values are integer microseconds from the same base.                     *)
(***************************************************************************)
EXTENDS Integers, Sequences, FiniteSets, TLC

VARIABLES
    fs,            \* the file system: path -> directory record
    args,          \* the parsed command line
    pc,            \* position of the run inside main/_find_overlap/_crop_bags/_crop_bag
    bag_files,     \* _get_all_bag_files' result
    input_bags,    \* SplitVerb.main's list of valid bags
    tested,        \* paths handed to is_bag_directory
    time_ranges,   \* (start, end, bag_path) of the bags whose range resolved
    overlap_start, \* datetime, microseconds
    overlap_end,   \* datetime, microseconds
    i,             \* index of the current bag in the for loops
    success_count, \* _crop_bags' counter
    local,         \* _crop_bag's local variables
    response,      \* what input() returned to the last overwrite question
    opened,        \* SequentialReader / SequentialWriter open() calls so far, in order
    out,           \* messages printed so far
    ret            \* main's return value: <<>> while running, <<code>> after

vars == <<fs, args, pc, bag_files, input_bags, tested, time_ranges, overlap_start,
          overlap_end, i, success_count, local, response, opened, out, ret>>

---------------------------------------------------------------------------
(* Bounds of the model *)

\* record timestamps are multiples of Step nanoseconds, 0 .. MaxTick * Step
MaxTick == 4
Step == 500
\* records per source bag
MaxRecs == 2
\* paths on the command line
MaxPaths == 2

TimeVals == {k * Step : k \in 0..MaxTick}

---------------------------------------------------------------------------
(* Time conversions.  Python's float is IEEE binary64: between 2^60 and    *)
(* 2^61 ns consecutive floats are 256 ns apart, and between 2^30 and 2^31  *)
(* s they are 2^-22 s = 1953125/8192 ns apart.                             *)

\* n / d rounded to the nearest integer, ties to even (d > 0)
RoundHalfEven(n, d) ==
    LET q == n \div d
        r == n % d
    IN  IF 2 * r < d THEN q
        ELSE IF 2 * r > d THEN q + 1
        ELSE IF q % 2 = 0 THEN q ELSE q + 1

\* spacing of binary64 values of nanosecond magnitude
NsUlp == 256
\* spacing of binary64 values of second magnitude is TickNum / TickDen ns
TickNum == 1953125
TickDen == 8192
\* nanoseconds in a microsecond
NsPerUs == 1000

\* a nanosecond count as a float: float(ns), ns + 10.0, ns - 10.0
ToFloat(ns) == NsUlp * RoundHalfEven(ns, NsUlp)

\* float seconds, counted in units of 2^-22 s, of a nanosecond float: x / 1e9
DivBy1e9(x) == RoundHalfEven(x * TickDen, TickNum)

\* datetime.fromtimestamp(ns / 1e9): microseconds, rounded half to even
FromTimestamp(ns) ==
    RoundHalfEven(DivBy1e9(ToFloat(ns)) * TickNum, TickDen * NsPerUs)

\* dt.timestamp() * 1e9: the nanosecond float of a datetime
Timestamp1e9(dt) ==
    NsUlp * RoundHalfEven(RoundHalfEven(dt * NsPerUs * TickDen, TickNum) * TickNum,
                          TickDen * NsUlp)

---------------------------------------------------------------------------
(* The file system *)

\* the names used for directories; os.listdir may return them in any order
Names == {"r", "a", "b"}
Topics == {"t1", "t2"}

\* args.output_dir's default
OutputDir == <<"cropped_bags">>

Cropped(bag_name) == bag_name \o "_cropped"

\* the directories a run can see: inputs, and the outputs _crop_bag derives
SrcPaths == {<<"r">>, <<"r", "a">>, <<"r", "b">>, <<"r", "b", "a">>}
Missing == <<"x">>
OutPaths == {OutputDir} \cup {Append(OutputDir, Cropped(n)) : n \in Names}

\* f"{input_bag}{suffix}": the path with its last name extended
Suffixed(p, suffix) == [p EXCEPT ![Len(p)] = @ \o suffix]
\* the values of split's --output: None, or a name
NoOutput == <<>>
ExplicitOutput == <<"out">>
\* the outputs SplitVerb.main derives or is given
SplitOutPaths ==
    {ExplicitOutput} \cup {Suffixed(p, suffix) : p \in {<<"r", "a">>, <<"r", "b">>},
                                                suffix \in {"_split", "_temp_split",
                                                             "_compressed", "_decompressed"}}

AllPaths == SrcPaths \cup {Missing} \cup OutPaths \cup SplitOutPaths

NoDir ==
    [exists |-> FALSE, meta |-> "none", db3 |-> 0, mcap |-> 0, ok |-> FALSE,
     topics |-> {}, recs |-> <<>>, first |-> 1]

\* a directory that is no bag: no metadata.yaml, no storage file
PlainDir == [NoDir EXCEPT !.exists = TRUE]

\* a bag directory: metadata.yaml in state meta ("ok": the mapping rosbag2
\* writes; "empty": yaml.safe_load gives None; "bad": not parsable;
\* "no_start", "no_duration": the mapping without its starting_time or its
\* duration entry; "not_mapping": YAML that is a scalar or a list), db3 and
\* mcap storage files, ok iff SequentialReader.open succeeds on them; first
\* is the storage file os.listdir names first
BagDir(meta, db3, mcap, ok, topics, recs) ==
    [exists |-> TRUE, meta |-> meta, db3 |-> db3, mcap |-> mcap, ok |-> ok,
     topics |-> topics, recs |-> recs, first |-> 1]

\* a bag recorded with a size limit: two storage files of one kind
SplitBagDir(meta, storage_id, first, recs) ==
    [BagDir(meta, IF storage_id = "sqlite3" THEN 2 ELSE 0,
            IF storage_id = "sqlite3" THEN 0 ELSE 2, TRUE, {"t1", "t2"}, recs)
        EXCEPT !.first = first]

IsPrefix(p, q) == Len(p) <= Len(q) /\ SubSeq(q, 1, Len(p)) = p

\* os.path.basename(bag_path.rstrip("/"))
Basename(p) == p[Len(p)]

\* the subdirectories of path in the file system f, in listdir order ord
\* (a sequence holding every name once)
ListSubdirs(f, path, ord) ==
    LET kids == SelectSeq(ord, LAMBDA n :
                    Append(path, n) \in AllPaths /\ f[Append(path, n)].exists)
    IN  [k \in 1..Len(kids) |-> Append(path, kids[k])]

NameOrders == {s \in [1..Cardinality(Names) -> Names] :
                 \A n \in Names : \E k \in DOMAIN s : s[k] = n}

---------------------------------------------------------------------------
(* _get_all_bag_files *)

is_bag_directory(f, dir_path) ==
    /\ f[dir_path].exists
    /\ f[dir_path].meta # "none"
    /\ (f[dir_path].db3 > 0 \/ f[dir_path].mcap > 0)

\* find_bag_files_recursively(path, n): the bags it appends, and the paths it
\* hands to is_bag_directory
RECURSIVE find_bag_files_recursively(_, _, _, _)
find_bag_files_recursively(f, path, n, ord) ==
    IF n < 0 THEN [found |-> <<>>, tested |-> {}]
    ELSE IF is_bag_directory(f, path) THEN [found |-> <<path>>, tested |-> {path}]
    ELSE LET items == ListSubdirs(f, path, ord)
             sub == [k \in 1..Len(items) |->
                        find_bag_files_recursively(f, items[k], n - 1, ord)]
             Cat[k \in 0..Len(items)] ==
                 IF k = 0 THEN <<>> ELSE Cat[k - 1] \o sub[k].found
         IN  [found |-> Cat[Len(items)],
              tested |-> {path} \cup UNION {sub[k].tested : k \in 1..Len(items)}]

\* a search one level deeper
SearchDeeper == 1 + 1

\* the depth _get_all_bag_files starts the search with
SearchDepth == 1

\* a discovery that passes over a path that does not exist
RECURSIVE get_all_bag_files_lenient(_, _, _)
get_all_bag_files_lenient(f, paths, ord) ==
    IF paths = <<>> THEN [raised |-> <<>>, bag_files |-> <<>>, tested |-> {}]
    ELSE LET one == IF f[Head(paths)].exists
                    THEN find_bag_files_recursively(f, Head(paths), SearchDepth, ord)
                    ELSE [found |-> <<>>, tested |-> {}]
             rest == get_all_bag_files_lenient(f, Tail(paths), ord)
         IN  [raised |-> <<>>,
              bag_files |-> one.found \o rest.bag_files,
              tested |-> one.tested \cup rest.tested]

\* the loop over the command line's paths; raised names the path that does not
\* exist, if one does not
RECURSIVE get_all_bag_files(_, _, _)
get_all_bag_files(f, paths, ord) ==
    IF paths = <<>> THEN [raised |-> <<>>, bag_files |-> <<>>, tested |-> {}]
    ELSE IF ~f[Head(paths)].exists
         THEN [raised |-> <<Head(paths)>>, bag_files |-> <<>>, tested |-> {}]
    ELSE LET one == find_bag_files_recursively(f, Head(paths), SearchDepth, ord)
             rest == get_all_bag_files(f, Tail(paths), ord)
         IN  [raised |-> rest.raised,
              bag_files |-> one.found \o rest.bag_files,
              tested |-> one.tested \cup rest.tested]

---------------------------------------------------------------------------
(* _get_start_end_timestamps and _get_timestamps_using_reader, for a bag     *)
(* directory d.  rosbag2 records starting_time as the first record's         *)
(* timestamp and duration as the last one's distance from it, in the         *)
(* metadata.yaml and in the storage files' own metadata alike.               *)

\* a duration counted backwards
duration_backwards(d) == IF d.recs = <<>> THEN 0 ELSE d.recs[1].t - d.recs[Len(d.recs)].t
starting_time(d) == IF d.recs = <<>> THEN 0 ELSE d.recs[1].t
duration(d) == IF d.recs = <<>> THEN 0 ELSE d.recs[Len(d.recs)].t - d.recs[1].t

\* the storage plugin chosen for a bag directory (lines 216-227, 328-333)
StorageId(d) == IF d.db3 > 0 THEN "sqlite3" ELSE "mcap"

\* a resolver's answer: a range (ok), or an exception (~ok); reader tells
\* whether a SequentialReader was opened on the way
Range(start, end, reader) ==
    [ok |-> TRUE, start |-> start, end |-> end, reader |-> reader]
\* an exception taken for the range [0, 0]
RaisedAsRange(reader) == [ok |-> TRUE, start |-> 0, end |-> 0, reader |-> reader]
Raised(reader) == [ok |-> FALSE, start |-> 0, end |-> 0, reader |-> reader]

\* the records of storage file k of a bag directory: rosbag2 fills one file
\* after the other, the first file gets the first half of the records
FileRecs(d, k) ==
    IF d.db3 + d.mcap <= 1 THEN d.recs
    ELSE IF k = 1 THEN SubSeq(d.recs, 1, (Len(d.recs) + 1) \div 2)
    ELSE SubSeq(d.recs, (Len(d.recs) + 1) \div 2 + 1, Len(d.recs))

\* what the reader opened on storage file k alone reports (lines 246-247)
file_start(d, k) == IF FileRecs(d, k) = <<>> THEN 0 ELSE FileRecs(d, k)[1].t
file_end(d, k) ==
    IF FileRecs(d, k) = <<>> THEN 0 ELSE FileRecs(d, k)[Len(FileRecs(d, k))].t

\* the files the fallback opens (lines 221-227): the .db3 file listed first,
\* or every .mcap file
file_paths(d) == IF d.db3 > 0 THEN {d.first} ELSE 1..d.mcap

get_timestamps_using_reader(d) ==
    IF d.db3 = 0 /\ d.mcap = 0 THEN Raised(FALSE)
    ELSE IF ~d.ok THEN Raised(TRUE)
    ELSE LET start_ns == CHOOSE m \in {file_start(d, k) : k \in file_paths(d)} :
                             \A k \in file_paths(d) : m <= file_start(d, k)
             end_ns == CHOOSE m \in {file_end(d, k) : k \in file_paths(d)} :
                           \A k \in file_paths(d) : file_end(d, k) <= m
         IN  Range(FromTimestamp(start_ns), FromTimestamp(end_ns), TRUE)

\* what _get_start_end_timestamps prints before it falls back to the reader
\* (lines 190, 207); the messages do not name the bag
fallback_warning(d) ==
    IF d.meta = "empty" THEN {<<"Warning: metadata.yaml is empty or invalid", <<>>>>}
    ELSE IF d.meta = "bad" THEN {<<"Warning: Error parsing metadata.yaml", <<>>>>}
    ELSE {}

\* datetime.fromtimestamp(0): the epoch, far before every bag of the model
EpochUs == 0 - 1000000

\* datetime.fromtimestamp(ns / 1e9) for ns counted from the epoch itself;
\* below 0.1 ms the float error is less than the rounding to microseconds
FromTimestampNearEpoch(ns) == EpochUs + RoundHalfEven(ns, NsPerUs)

get_start_end_timestamps(d) ==
    IF d.meta = "none" THEN Raised(FALSE)
    ELSE IF d.meta = "not_mapping" THEN Raised(FALSE)
    ELSE IF d.meta = "no_start"
    THEN Range(EpochUs, FromTimestampNearEpoch(duration(d)), FALSE)
    ELSE IF d.meta = "no_duration"
    THEN Range(FromTimestamp(starting_time(d)), FromTimestamp(starting_time(d)), FALSE)
    ELSE IF d.meta = "ok"
    THEN LET start_ns == starting_time(d)
             end_ns == start_ns + duration(d)
         IN  Range(FromTimestamp(start_ns), FromTimestamp(end_ns), FALSE)
    ELSE get_timestamps_using_reader(d)

---------------------------------------------------------------------------
(* The overlap window and _crop_bag's tests *)

SeqMax(s, k) == CHOOSE m \in {s[j][k] : j \in DOMAIN s} :
                    \A j \in DOMAIN s : s[j][k] <= m
SeqMin(s, k) == CHOOSE m \in {s[j][k] : j \in DOMAIN s} :
                    \A j \in DOMAIN s : m <= s[j][k]

\* the window's start taken as the earliest start
OverlapStartEarliest(ranges) == SeqMin(ranges, 1)

\* max(start for start, _, _ in time_ranges)
OverlapStart(ranges) == SeqMax(ranges, 1)
\* min(end for _, end, _ in time_ranges)
OverlapEnd(ranges) == SeqMin(ranges, 2)

\* _find_overlap's test for "no temporal overlap"
NoOverlapFound(start, end) == start > end
\* the test letting a window through whose start is one past its end
CannotCropLax(start, end) == start > end + 1

\* _crop_bags' test for "cannot crop"
CannotCrop(start, end) == start >= end

\* the tolerance of the containment test, in nanoseconds
Tolerance == 10

\* the containment test without its tolerance, ends excluded
ContainedStrictly(bag_start, bag_end, o_start, o_end) ==
    /\ Timestamp1e9(o_start) < Timestamp1e9(bag_start)
    /\ Timestamp1e9(bag_end) < Timestamp1e9(o_end)

\* "the bag file is completely contained in the overlap period"
Contained(bag_start, bag_end, o_start, o_end) ==
    /\ Timestamp1e9(o_start) <= ToFloat(Timestamp1e9(bag_start) + Tolerance)
    /\ ToFloat(Timestamp1e9(bag_end) - Tolerance) <= Timestamp1e9(o_end)

\* the filter of the copy loop, t in nanoseconds
InOverlap(t, o_start, o_end) ==
    Timestamp1e9(o_start) <= t /\ t <= Timestamp1e9(o_end)

\* output_path = os.path.join(output_dir, f"{bag_name}_cropped")
OutputPath(output_dir, bag_path) == Append(output_dir, Cropped(Basename(bag_path)))

\* the answers to "Overwrite? [Y/n]" that let the crop go on; "EOF" is
\* EOFError or KeyboardInterrupt raised by input()
Accepting == {"", "y", "yes"}
Responses == {"", "y", "n", "EOF"}
OverwritesUnlessNo(resp) == resp # "n"
Overwrites(resp) == resp \in Accepting

\* a removal that leaves the directory in place
rmtree_nothing(f, path) == f

\* shutil.rmtree(path): the directory and everything below it
rmtree(f, path) == [q \in AllPaths |-> IF IsPrefix(path, q) THEN NoDir ELSE f[q]]

\* a copy that loses the last record
copytree_short(f, src, dst) ==
    [f EXCEPT ![dst] = [f[src] EXCEPT !.recs = SubSeq(@, 1, Len(@) - 1)]]

\* shutil.copytree(src, dst), the bag directory itself
copytree(f, src, dst) == [f EXCEPT ![dst] = f[src]]

\* SequentialWriter.open(uri): a new bag directory with one storage file;
\* its metadata.yaml is written when the writer is closed
writer_open(f, uri, storage_id) ==
    [f EXCEPT ![uri] = BagDir("none",
                              IF storage_id = "sqlite3" THEN 1 ELSE 0,
                              IF storage_id = "sqlite3" THEN 0 ELSE 1,
                              TRUE, {}, <<>>)]
\* a writer that is given no topic
writer_create_no_topics(f, uri, topics) == f

writer_create_topics(f, uri, topics) ==
    [f EXCEPT ![uri].topics = f[uri].topics \cup topics]
writer_write(f, uri, rec) == [f EXCEPT ![uri].recs = Append(f[uri].recs, rec)]
\* a writer that is dropped without being closed: no metadata.yaml
writer_left_open(f, uri) == f
writer_close(f, uri) == [f EXCEPT ![uri].meta = "ok"]

\* os.makedirs(output_dir, exist_ok=True)
makedirs(f, path) == IF f[path].exists THEN f ELSE [f EXCEPT ![path] = PlainDir]

---------------------------------------------------------------------------
(* Initial states: the file system and the command line of one run *)

\* record k of a bag: its topic, its payload (opaque; here the record's
\* position in the source) and its timestamp
Rec(k, t) == [topic |-> IF k % 2 = 1 THEN "t1" ELSE "t2", data |-> k, t |-> t]
Recs(times) == [k \in 1..Len(times) |-> Rec(k, times[k])]

\* rosbag2 stores and delivers records in timestamp order
TimeSeqs == UNION {{s \in [1..n -> TimeVals] : \A k \in 1..(n - 1) : s[k] <= s[k + 1]}
                   : n \in 1..MaxRecs}

MetaKinds == {"ok", "empty", "bad"}
\* descriptors that parse but are not the mapping rosbag2 writes
OddKinds == {"no_start", "no_duration", "not_mapping"}

\* what an earlier run left at an output path
OldOutput == BagDir("ok", 1, 0, TRUE, {"t1"}, <<[topic |-> "t1", data |-> 0, t |-> 0]>>)

A == <<"r", "a">>
B == <<"r", "b">>
Long == <<0, MaxTick * Step>>
Late == <<2 * Step, MaxTick * Step>>

\* _crop_bag's locals; `before` is not a local of the code: it keeps what was
\* at output_path when _crop_bag was entered, for the properties to refer to
NoLocal ==
    [output_path |-> <<>>, bag_start |-> 0, bag_end |-> 0, writer |-> FALSE,
     reader |-> FALSE, pos |-> 0, copied_msg_count |-> 0, skipped_msg_count |-> 0,
     before |-> NoDir]

Args(bags, crop, overwrite) ==
    [bags |-> bags, crop |-> crop, output_dir |-> OutputDir, overwrite |-> overwrite,
     plot |-> FALSE]
\* a report with --plot
ArgsPlot(bags) == [Args(bags, FALSE, FALSE) EXCEPT !.plot = TRUE]

EmptyFs == [p \in AllPaths |-> NoDir]

InitRun ==
    /\ pc = "main"
    /\ bag_files = <<>>
    /\ input_bags = <<>>
    /\ tested = {}
    /\ time_ranges = <<>>
    /\ overlap_start = 0
    /\ overlap_end = 0
    /\ i = 0
    /\ success_count = 0
    /\ local = NoLocal
    /\ response = "none"
    /\ opened = <<>>
    /\ out = {}
    /\ ret = <<>>

\* one or two well-formed bags with any records, nothing in the way
InitTiming ==
    /\ \E ta \in TimeSeqs, tb \in TimeSeqs \cup {<<>>} :
          fs = [EmptyFs EXCEPT
                  ![<<"r">>] = PlainDir,
                  ![A] = BagDir("ok", 1, 0, TRUE, Topics, Recs(ta)),
                  ![B] = IF tb = <<>> THEN NoDir
                         ELSE BagDir("ok", 0, 1, TRUE, Topics, Recs(tb))]
    /\ \E crop \in BOOLEAN : args = Args(<<<<"r">>>>, crop, FALSE)

\* two bags with damaged metadata or storage, output paths already taken
InitEnv ==
    /\ \E ma \in MetaKinds, mb \in MetaKinds, oka \in BOOLEAN, okb \in BOOLEAN,
          tb \in {Long, Late}, old \in SUBSET {A, B} :
          fs = [p \in AllPaths |->
                  IF p = <<"r">> THEN PlainDir
                  ELSE IF p = A THEN BagDir(ma, 1, 0, oka, Topics, Recs(Long))
                  ELSE IF p = B THEN BagDir(mb, 0, 1, okb, Topics, Recs(tb))
                  ELSE IF p = OutputDir /\ old # {} THEN PlainDir
                  ELSE IF \E q \in old : p = OutputPath(OutputDir, q) THEN OldOutput
                  ELSE NoDir]
    /\ \E crop \in BOOLEAN, overwrite \in BOOLEAN :
          args = Args(<<A, B>>, crop, overwrite)

\* a well-formed bag next to one whose metadata.yaml parses but is not what
\* rosbag2 writes
InitOdd ==
    /\ \E mb \in OddKinds, tb \in {Long, Late}, okb \in BOOLEAN :
          fs = [EmptyFs EXCEPT
                  ![<<"r">>] = PlainDir,
                  ![A] = BagDir("ok", 1, 0, TRUE, Topics, Recs(Long)),
                  ![B] = BagDir(mb, 0, 1, okb, Topics, Recs(tb))]
    /\ \E bags \in {<<A, B>>, <<B, A>>}, crop \in BOOLEAN :
          args = Args(bags, crop, FALSE)

\* a bag of two storage files whose metadata.yaml is good, empty or not
\* parsable, alone or next to a bag of one file
InitSegments ==
    /\ \E ma \in MetaKinds, storage_id \in {"sqlite3", "mcap"}, first \in 1..2,
          ta \in {s \in TimeSeqs : Len(s) = 2}, withB \in BOOLEAN :
          /\ fs = [EmptyFs EXCEPT
                     ![<<"r">>] = PlainDir,
                     ![A] = SplitBagDir(ma, storage_id, first, Recs(ta)),
                     ![B] = IF withB THEN BagDir("ok", 0, 1, TRUE, Topics, Recs(Long))
                            ELSE NoDir]
          /\ \E crop \in BOOLEAN : args = Args(<<<<"r">>>>, crop, TRUE)

\* a report with --plot over two bags
InitPlot ==
    /\ \E mb \in MetaKinds, okb \in BOOLEAN, tb \in {Long, Late} :
          fs = [EmptyFs EXCEPT
                  ![<<"r">>] = PlainDir,
                  ![A] = BagDir("ok", 1, 0, TRUE, Topics, Recs(Long)),
                  ![B] = BagDir(mb, 0, 1, okb, Topics, Recs(tb))]
    /\ args = ArgsPlot(<<A, B>>)

\* any tree of plain and bag directories, any command line over it
InitDiscovery ==
    /\ \E kind \in [SrcPaths -> {"none", "plain", "bag"}] :
          /\ \A p \in SrcPaths, q \in SrcPaths :
                IsPrefix(p, q) /\ kind[p] = "none" => kind[q] = "none"
          /\ fs = [p \in AllPaths |->
                     IF p \notin SrcPaths \/ kind[p] = "none" THEN NoDir
                     ELSE IF kind[p] = "plain" THEN PlainDir
                     ELSE BagDir("ok", 1, 0, TRUE, Topics,
                                 Recs(IF p = B THEN Late ELSE Long))]
    /\ \E n \in 1..MaxPaths :
          \E bags \in [1..n -> {<<"r">>, A, B, Missing}] :
             \E crop \in BOOLEAN : args = Args(bags, crop, TRUE)

Init ==
    InitRun /\ (InitTiming \/ InitEnv \/ InitOdd \/ InitSegments \/ InitPlot \/ InitDiscovery)

---------------------------------------------------------------------------
(* OverlapVerb.main, _find_overlap and _crop_bags *)

Return(code) == ret' = <<code>> /\ pc' = "done"

\* main; _get_all_bag_files (lines 62-79, 119-126, 259-296)
Discover ==
    /\ pc = "main"
    /\ \E ord \in NameOrders :
          LET got == get_all_bag_files(fs, args.bags, ord)
          IN  /\ tested' = got.tested
              /\ IF got.raised # <<>>
                 THEN /\ out' = out \cup {<<"Error", got.raised[1]>>}
                      /\ Return(1)
                      /\ UNCHANGED <<bag_files, i>>
                 ELSE IF got.bag_files = <<>>
                 THEN /\ out' = out \cup {<<"No valid bag files found", <<>>>>}
                      /\ Return(1)
                      /\ UNCHANGED <<bag_files, i>>
                 ELSE /\ bag_files' = got.bag_files
                      /\ i' = 1
                      /\ pc' = "resolve"
                      /\ UNCHANGED <<out, ret>>
    /\ UNCHANGED <<fs, args, input_bags, time_ranges, overlap_start, overlap_end,
                   success_count, local, response, opened>>

\* one pass of the loop over bag_files (lines 82-88, 133-139)
Resolve ==
    /\ pc = "resolve"
    /\ LET bag_path == bag_files[i]
           got == get_start_end_timestamps(fs[bag_path])
       IN  /\ IF got.ok
              THEN /\ time_ranges' = Append(time_ranges, <<got.start, got.end, bag_path>>)
                   /\ out' = out \cup fallback_warning(fs[bag_path])
              ELSE /\ time_ranges' = time_ranges
                   /\ out' = out \cup fallback_warning(fs[bag_path])
                                 \cup {<<"Error processing", bag_path>>}
           /\ opened' = IF got.reader THEN Append(opened, <<"reader", bag_path>>) ELSE opened
    /\ IF i = Len(bag_files) THEN pc' = "overlap" /\ i' = 0
       ELSE pc' = "resolve" /\ i' = i + 1
    /\ UNCHANGED <<fs, args, input_bags, bag_files, tested, overlap_start, overlap_end,
                   success_count, local, response, ret>>

\* lines 90-95, 141-146
Overlap ==
    /\ pc = "overlap"
    /\ IF time_ranges = <<>>
       THEN /\ out' = out \cup {<<"No valid bag files could be processed", <<>>>>}
            /\ Return(1)
            /\ UNCHANGED <<overlap_start, overlap_end>>
       ELSE /\ overlap_start' = OverlapStart(time_ranges)
            /\ overlap_end' = OverlapEnd(time_ranges)
            /\ pc' = IF args.crop THEN "check" ELSE "report"
            /\ UNCHANGED <<out, ret>>
    /\ UNCHANGED <<fs, args, input_bags, bag_files, tested, time_ranges, i, success_count,
                   local, response, opened>>

\* datetime.now(), twice: later than every bag of the model
Now == FromTimestamp(MaxTick * Step) + 1

\* "Bag File Summary": one entry for each resolved range (lines 102-105)
BagSummary(ranges) == {<<"Bag", ranges[k][3]>> : k \in DOMAIN ranges}

\* what _plot_bag_time_ranges can do: show the plot, raise ImportError
\* (matplotlib is not installed), or raise anything else (no display, a
\* backend or date conversion error)
PlotOutcomes == {"shown", "ImportError", "Exception"}

\* what the run prints and returns after the plot (lines 111-117, 68-70)
PlotEnds(outcome) ==
    IF outcome = "shown" THEN [printed |-> {}, code |-> 0]
    ELSE IF outcome = "ImportError"
    THEN [printed |-> {<<"Warning: Plotting functionality requires matplotlib", <<>>>>},
          code |-> 0]
    ELSE [printed |-> {<<"Error", <<"plot">>>>}, code |-> 1]

\* _find_overlap's summary and plot (lines 97-117)
Report ==
    /\ pc = "report"
    /\ \E outcome \in IF args.plot THEN PlotOutcomes ELSE {"shown"} :
          /\ IF NoOverlapFound(overlap_start, overlap_end)
             THEN /\ out' = out \cup {<<"Warning: No temporal overlap found", <<>>>>,
                                      <<"Temporal Overlap Summary", <<>>>>}
                              \cup BagSummary(time_ranges)
                              \cup PlotEnds(outcome).printed
                  /\ overlap_start' = Now
                  /\ \E later \in 0..1 : overlap_end' = Now + later
             ELSE /\ out' = out \cup {<<"Temporal Overlap Summary", <<>>>>}
                              \cup BagSummary(time_ranges)
                              \cup PlotEnds(outcome).printed
                  /\ UNCHANGED <<overlap_start, overlap_end>>
          /\ Return(PlotEnds(outcome).code)
    /\ UNCHANGED <<fs, args, input_bags, bag_files, tested, time_ranges, i, success_count,
                   local, response, opened>>

\* _crop_bags' test of the overlap and its makedirs (lines 148-156)
Check ==
    /\ pc = "check"
    /\ IF CannotCrop(overlap_start, overlap_end)
       THEN /\ out' = out \cup {<<"Cannot crop: No valid temporal overlap found", <<>>>>}
            /\ Return(1)
            /\ UNCHANGED <<fs, i, success_count>>
       ELSE /\ fs' = makedirs(fs, args.output_dir)
            /\ success_count' = 0
            /\ i' = 1
            /\ pc' = "crop"
            /\ UNCHANGED <<out, ret>>
    /\ UNCHANGED <<args, input_bags, bag_files, tested, time_ranges, overlap_start, overlap_end,
                   local, response, opened>>

\* lines 164-165
ExitCode(count, total) == IF count > 0 THEN 0 ELSE 1

Summary ==
    /\ pc = "summary"
    /\ out' = out \cup {<<"Successfully cropped", <<success_count, Len(bag_files)>>>>}
    /\ Return(ExitCode(success_count, Len(bag_files)))
    /\ UNCHANGED <<fs, args, input_bags, bag_files, tested, time_ranges, overlap_start,
                   overlap_end, i, success_count, local, response, opened>>

---------------------------------------------------------------------------
(* _crop_bag, called for bag_files[i] from the loop of lines 157-162 *)

bag_path == bag_files[i]

\* a loop that counts every archive as cropped
NextBagCountsEvery(count) ==
    /\ success_count' = success_count + 1
    /\ local' = NoLocal
    /\ IF i = Len(bag_files) THEN pc' = "summary" /\ i' = 0
       ELSE pc' = "crop" /\ i' = i + 1

\* a loop that ends with the first archive that is not cropped
NextBagStopsOnFailure(count) ==
    /\ success_count' = count
    /\ local' = NoLocal
    /\ IF i = Len(bag_files) \/ count = success_count THEN pc' = "summary" /\ i' = 0
       ELSE pc' = "crop" /\ i' = i + 1

\* back in _crop_bags' loop: _crop_bag returned True or False, or raised
NextBag(count) ==
    /\ success_count' = count
    /\ local' = NoLocal
    /\ IF i = Len(bag_files) THEN pc' = "summary" /\ i' = 0
       ELSE pc' = "crop" /\ i' = i + 1

\* the output path and what is in its way (lines 307-325)
CropCollision ==
    /\ pc = "crop"
    /\ LET output_path == OutputPath(args.output_dir, bag_path)
       IN  IF ~fs[output_path].exists
           THEN /\ local' = [NoLocal EXCEPT !.output_path = output_path,
                                                   !.before = fs[output_path]]
                /\ pc' = "crop_range"
                /\ UNCHANGED <<fs, response, out, success_count, i>>
           ELSE IF args.overwrite
           THEN /\ fs' = rmtree(fs, output_path)
                /\ local' = [NoLocal EXCEPT !.output_path = output_path,
                                                   !.before = fs[output_path]]
                /\ pc' = "crop_range"
                /\ UNCHANGED <<response, out, success_count, i>>
           ELSE \E resp \in Responses :
                   /\ response' = resp
                   /\ IF Overwrites(resp)
                      THEN /\ fs' = rmtree(fs, output_path)
                           /\ local' = [NoLocal EXCEPT !.output_path = output_path,
                                                   !.before = fs[output_path]]
                           /\ pc' = "crop_range"
                           /\ out' = out \cup {<<"Overwrite?", output_path>>}
                           /\ UNCHANGED <<success_count, i>>
                      ELSE /\ out' = out \cup {<<"Overwrite?", output_path>>,
                                               <<"Skipping", bag_path>>}
                           /\ NextBag(success_count)
                           /\ UNCHANGED fs
    /\ UNCHANGED <<args, input_bags, bag_files, tested, time_ranges, overlap_start, overlap_end,
                   opened, ret>>

\* the bag's own range and the copy of a contained bag (lines 327-347)
CropRange ==
    /\ pc = "crop_range"
    /\ LET got == get_start_end_timestamps(fs[bag_path])
       IN  /\ opened' = IF got.reader THEN Append(opened, <<"reader", bag_path>>) ELSE opened
           /\ IF ~got.ok
              THEN /\ out' = out \cup fallback_warning(fs[bag_path])
                                 \cup {<<"Error cropping", bag_path>>}
                   /\ NextBag(success_count)
                   /\ UNCHANGED fs
              ELSE IF Contained(got.start, got.end, overlap_start, overlap_end)
              THEN /\ fs' = copytree(fs, bag_path, local.output_path)
                   /\ out' = out \cup fallback_warning(fs[bag_path])
                                 \cup {<<"Copying", bag_path>>}
                   /\ NextBag(success_count + 1)
              ELSE /\ local' = [local EXCEPT !.bag_start = got.start, !.bag_end = got.end]
                   /\ out' = out \cup fallback_warning(fs[bag_path])
                   /\ pc' = "crop_writer"
                   /\ UNCHANGED <<fs, success_count, i>>
    /\ UNCHANGED <<args, input_bags, bag_files, tested, time_ranges, overlap_start, overlap_end,
                   response, ret>>

\* writer.open (lines 349-358); opening may fail
CropWriter ==
    /\ pc = "crop_writer"
    /\ opened' = Append(opened, <<"writer", local.output_path>>)
    /\ \E fails \in BOOLEAN :
          IF fails
          THEN /\ out' = out \cup {<<"Error cropping", bag_path>>}
               /\ NextBag(success_count)
               /\ UNCHANGED fs
          ELSE /\ fs' = writer_open(fs, local.output_path, StorageId(fs[bag_path]))
               /\ local' = [local EXCEPT !.writer = TRUE]
               /\ pc' = "crop_reader"
               /\ UNCHANGED <<out, success_count, i>>
    /\ UNCHANGED <<args, input_bags, bag_files, tested, time_ranges, overlap_start, overlap_end,
                   response, ret>>

\* reader.open and get_metadata (lines 360-369); when it raises, the writer
\* goes out of scope and is closed
CropReader ==
    /\ pc = "crop_reader"
    /\ opened' = Append(opened, <<"reader", bag_path>>)
    /\ IF ~fs[bag_path].ok
       THEN /\ out' = out \cup {<<"Error cropping", bag_path>>}
            /\ fs' = writer_close(fs, local.output_path)
            /\ NextBag(success_count)
       ELSE /\ local' = [local EXCEPT !.reader = TRUE, !.pos = 1]
            /\ pc' = "crop_topics"
            /\ UNCHANGED <<fs, out, success_count, i>>
    /\ UNCHANGED <<args, input_bags, bag_files, tested, time_ranges, overlap_start, overlap_end,
                   response, ret>>

\* lines 371-373
CropTopics ==
    /\ pc = "crop_topics"
    /\ fs' = writer_create_topics(fs, local.output_path, fs[bag_path].topics)
    /\ pc' = "crop_copy"
    /\ UNCHANGED <<args, input_bags, bag_files, tested, time_ranges, overlap_start, overlap_end,
                   i, success_count, local, response, opened, out, ret>>

\* one pass of the copy loop (lines 378-390)
CropCopy ==
    /\ pc = "crop_copy"
    /\ local.pos <= Len(fs[bag_path].recs)
    /\ LET rec == fs[bag_path].recs[local.pos]
       IN  IF InOverlap(rec.t, overlap_start, overlap_end)
           THEN /\ fs' = writer_write(fs, local.output_path, rec)
                /\ local' = [local EXCEPT !.pos = @ + 1, !.copied_msg_count = @ + 1]
           ELSE /\ fs' = fs
                /\ local' = [local EXCEPT !.pos = @ + 1, !.skipped_msg_count = @ + 1]
    /\ UNCHANGED <<args, input_bags, pc, bag_files, tested, time_ranges, overlap_start,
                   overlap_end, i, success_count, response, opened, out, ret>>

\* reader.has_next, reader.read_next or writer.write raises on the record at
\* pos (lines 378-381): the exception leaves _crop_bag, reader and writer go
\* out of scope and are closed, _crop_bags reports it (lines 161-162)
CropCopyFails ==
    /\ pc = "crop_copy"
    /\ local.pos <= Len(fs[bag_path].recs)
    /\ fs' = writer_close(fs, local.output_path)
    /\ out' = out \cup {<<"Error cropping", bag_path>>}
    /\ NextBag(success_count)
    /\ UNCHANGED <<args, input_bags, bag_files, tested, time_ranges, overlap_start, overlap_end,
                   response, opened, ret>>

\* the loop's end and return True (lines 378, 392-393); reader and writer go
\* out of scope and are closed
CropDone ==
    /\ pc = "crop_copy"
    /\ local.pos > Len(fs[bag_path].recs)
    /\ fs' = writer_close(fs, local.output_path)
    /\ out' = out \cup {<<"Cropped bag saved", bag_path>>}
    /\ NextBag(success_count + 1)
    /\ UNCHANGED <<args, input_bags, bag_files, tested, time_ranges, overlap_start, overlap_end,
                   response, opened, ret>>

Next ==
    \/ Discover
    \/ Resolve
    \/ Overlap
    \/ Report
    \/ Check
    \/ CropCollision
    \/ CropRange
    \/ CropWriter
    \/ CropReader
    \/ CropTopics
    \/ CropCopy
    \/ CropCopyFails
    \/ CropDone
    \/ Summary

Spec == Init /\ [][Next]_vars

---------------------------------------------------------------------------
(* SplitVerb.main (verb/split.py): the inputs, the output name of each bag, *)
(* `ros2 bag convert` and the replacement of the original                   *)

\* _is_valid_bag: a directory with metadata.yaml and a .mcap or .db3 file
is_valid_bag(f, path) ==
    /\ f[path].exists
    /\ f[path].meta # "none"
    /\ (f[path].db3 > 0 \/ f[path].mcap > 0)

\* the loop over args.input_bags (lines 71-89); a pattern of the model is a
\* plain path, which glob.glob matches iff it exists
valid_input_bags(f, patterns) == SelectSeq(patterns, LAMBDA p : is_valid_bag(f, p))

\* what that loop prints for the patterns it drops
InputWarnings(f, patterns) ==
    {<<IF f[patterns[k]].exists THEN "not a valid ROS2 bag" ELSE "not found", patterns[k]>>
        : k \in {j \in DOMAIN patterns : ~is_valid_bag(f, patterns[j])}}

\* an output name that no longer stops a run over several bags
AmbiguousOutputNever(a, bags) == a.output # NoOutput /\ Len(bags) > Len(bags)

\* "Cannot specify output name (-o) when splitting multiple bags" (line 99)
AmbiguousOutput(a, bags) == a.output # NoOutput /\ Len(bags) > 1

\* lines 115-118
output_bag(a, input_bag) ==
    IF a.inplace THEN Suffixed(input_bag, "_temp_split")
    ELSE IF a.output # NoOutput THEN a.output
    ELSE Suffixed(input_bag, "_split")

SplitArgs(patterns, output, inplace, validate) ==
    [input_bags |-> patterns, output |-> output, inplace |-> inplace, validate |-> validate]

\* the loop's local variables; original_messages is <<>> for None
NoSplitLocal == [output_bag |-> <<>>, original_messages |-> <<>>, split_ok |-> FALSE]

\* what `ros2 bag convert` can do: fail, write every record, or lose one
ConvertOutcomes == {"failed", "ok", "short"}

InitSplit ==
    /\ pc = "split_main"
    /\ \E oka \in BOOLEAN, kb \in {"none", "plain", "bag"} :
          fs = [EmptyFs EXCEPT
                  ![<<"r">>] = PlainDir,
                  ![A] = BagDir("ok", 1, 0, oka, Topics, Recs(Long)),
                  ![B] = IF kb = "none" THEN NoDir
                         ELSE IF kb = "plain" THEN PlainDir
                         ELSE BagDir("ok", 0, 1, TRUE, Topics, Recs(Late))]
    /\ \E n \in 1..MaxPaths :
          \E patterns \in [1..n -> {A, B, Missing}] :
             \E output \in {NoOutput, ExplicitOutput}, inplace \in BOOLEAN,
                validate \in BOOLEAN :
                args = SplitArgs(patterns, output, inplace, validate)
    /\ bag_files = <<>>
    /\ input_bags = <<>>
    /\ tested = {}
    /\ time_ranges = <<>>
    /\ overlap_start = 0
    /\ overlap_end = 0
    /\ i = 0
    /\ success_count = 0
    /\ local = NoSplitLocal
    /\ response = "none"
    /\ opened = <<>>
    /\ out = {}
    /\ ret = <<>>

\* lines 69-108: the inputs and the constraints on --output
SplitMain ==
    /\ pc = "split_main"
    /\ LET bags == valid_input_bags(fs, args.input_bags)
           warned == out \cup InputWarnings(fs, args.input_bags)
       IN  IF bags = <<>>
           THEN /\ out' = warned \cup {<<"No valid bag files found", <<>>>>}
                /\ Return(1)
                /\ UNCHANGED <<input_bags, i>>
           ELSE IF AmbiguousOutput(args, bags)
           THEN /\ out' = warned \cup {<<"Cannot specify output name", <<>>>>}
                /\ Return(1)
                /\ UNCHANGED <<input_bags, i>>
           ELSE IF args.inplace /\ args.output # NoOutput
           THEN /\ out' = warned \cup {<<"Cannot use both --inplace and --output", <<>>>>}
                /\ Return(1)
                /\ UNCHANGED <<input_bags, i>>
           ELSE /\ out' = warned
                /\ input_bags' = bags
                /\ i' = 1
                /\ pc' = "split_info"
                /\ ret' = ret
    /\ UNCHANGED <<fs, args, bag_files, tested, time_ranges, overlap_start,
                   overlap_end, success_count, local, response, opened>>

input_bag == input_bags[i]

\* lines 114-137: the output name, and `ros2 bag info` on the input, which
\* gives the message count, or fails or prints no `Messages:` line (the
\* count stays None and a warning is printed at most)
SplitInfo ==
    /\ pc = "split_info"
    /\ \E counted \in IF args.validate /\ fs[input_bag].ok THEN BOOLEAN ELSE {FALSE} :
          local' = [NoSplitLocal EXCEPT
                      !.output_bag = output_bag(args, input_bag),
                      !.original_messages =
                          IF counted THEN <<Len(fs[input_bag].recs)>> ELSE <<>>]
    /\ opened' = IF args.validate THEN Append(opened, <<"info", input_bag>>) ELSE opened
    /\ pc' = "split_convert"
    /\ UNCHANGED <<fs, args, bag_files, input_bags, tested, time_ranges, overlap_start,
                   overlap_end, i, success_count, response, out, ret>>

\* _split_single_bag (lines 177-285): `ros2 bag convert` and the validation
\* of what it wrote
SplitConvert ==
    /\ pc = "split_convert"
    /\ \E outcome \in ConvertOutcomes :
          LET written == IF outcome = "ok" THEN fs[input_bag].recs
                         ELSE SubSeq(fs[input_bag].recs, 1, Len(fs[input_bag].recs) - 1)
              validated == args.validate /\ local.original_messages # <<>>
          IN  /\ fs' = IF outcome = "failed" THEN fs
                       ELSE [fs EXCEPT ![local.output_bag] =
                                [fs[input_bag] EXCEPT !.recs = written]]
              /\ local' = [local EXCEPT !.split_ok =
                              /\ outcome # "failed"
                              /\ (validated => local.original_messages = <<Len(written)>>)]
              /\ opened' = Append(opened, <<"convert", input_bag>>)
    /\ pc' = "split_replace"
    /\ UNCHANGED <<args, bag_files, input_bags, tested, time_ranges, overlap_start,
                   overlap_end, i, success_count, response, out, ret>>

\* what the replacement of the original can do (lines 145-151): both calls
\* succeed, shutil.rmtree raises with the original still there, or os.rename
\* raises with the original gone
ReplaceOutcomes == {"replaced", "rmtree_failed", "rename_failed"}

\* shutil.rmtree(input_bag); os.rename(output_bag, input_bag) (lines 142-146)
replace(f, a, ok, original, output) ==
    IF ok /\ a.inplace
    THEN [f EXCEPT ![original] = f[output], ![output] = NoDir]
    ELSE f

\* lines 140-154: the replacement of the original, the count, the next bag
SplitReplace ==
    /\ pc = "split_replace"
    /\ \E outcome \in IF local.split_ok /\ args.inplace THEN ReplaceOutcomes
                       ELSE {"replaced"} :
          IF outcome # "replaced"
          THEN /\ out' = out \cup {<<"Failed to replace original bag", input_bag>>}
               /\ fs' = IF outcome = "rmtree_failed" THEN fs
                         ELSE rmtree(fs, input_bag)
               /\ Return(1)
               /\ UNCHANGED <<i, success_count, local>>
          ELSE /\ fs' = replace(fs, args, local.split_ok, input_bag, local.output_bag)
               /\ success_count' = IF local.split_ok THEN success_count + 1 ELSE success_count
               /\ out' = IF local.split_ok THEN out
                         ELSE out \cup {<<"Failed to split", input_bag>>}
               /\ local' = NoSplitLocal
               /\ ret' = ret
               /\ IF i = Len(input_bags) THEN pc' = "split_summary" /\ i' = 0
                  ELSE pc' = "split_info" /\ i' = i + 1
    /\ UNCHANGED <<args, bag_files, input_bags, tested, time_ranges, overlap_start,
                   overlap_end, response, opened>>

\* line 160
SplitExitCode(count, total) == IF count = total THEN 0 ELSE 1

\* lines 155-160
SplitSummary ==
    /\ pc = "split_summary"
    /\ out' = IF Len(input_bags) > 1 THEN out \cup {<<"Split summary", <<>>>>} ELSE out
    /\ Return(SplitExitCode(success_count, Len(input_bags)))
    /\ UNCHANGED <<fs, args, bag_files, input_bags, tested, time_ranges, overlap_start,
                   overlap_end, i, success_count, local, response, opened>>

---------------------------------------------------------------------------
(* CompressVerb.main (verb/compress.py) and DecompressVerb.main            *)
(* (verb/decompress.py): the inputs, then `ros2 bag convert` bag by bag     *)

\* compress.py line 121
compressed_bag(a, input) ==
    IF a.output # NoOutput THEN a.output ELSE Suffixed(input, "_compressed")

\* decompress.py line 81
decompressed_bag(a, input) ==
    IF a.output # NoOutput THEN a.output ELSE Suffixed(input, "_decompressed")

CompressArgs(patterns, output, validate) ==
    [input_bags |-> patterns, output |-> output, validate |-> validate]

InitCompress ==
    /\ pc \in {"compress_main", "decompress_main"}
    /\ \E oka \in BOOLEAN, kb \in {"none", "plain", "bag"} :
          fs = [EmptyFs EXCEPT
                  ![<<"r">>] = PlainDir,
                  ![A] = BagDir("ok", 1, 0, oka, Topics, Recs(Long)),
                  ![B] = IF kb = "none" THEN NoDir
                         ELSE IF kb = "plain" THEN PlainDir
                         ELSE BagDir("ok", 0, 1, TRUE, Topics, Recs(Late))]
    /\ \E n \in 1..MaxPaths :
          \E patterns \in [1..n -> {A, B, Missing}] :
             \E output \in {NoOutput, ExplicitOutput}, validate \in BOOLEAN :
                args = CompressArgs(patterns, output, validate)
    /\ bag_files = <<>>
    /\ input_bags = <<>>
    /\ tested = {}
    /\ time_ranges = <<>>
    /\ overlap_start = 0
    /\ overlap_end = 0
    /\ i = 0
    /\ success_count = 0
    /\ local = NoSplitLocal
    /\ response = "none"
    /\ opened = <<>>
    /\ out = {}
    /\ ret = <<>>

\* compress.py lines 81-118
CompressMain ==
    /\ pc = "compress_main"
    /\ LET bags == valid_input_bags(fs, args.input_bags)
           warned == out \cup InputWarnings(fs, args.input_bags)
       IN  IF bags = <<>>
           THEN /\ out' = warned \cup {<<"No valid bag files found", <<>>>>}
                /\ Return(1)
                /\ UNCHANGED <<input_bags, i>>
           ELSE IF AmbiguousOutput(args, bags)
           THEN /\ out' = warned \cup {<<"Cannot specify output name", <<>>>>}
                /\ Return(1)
                /\ UNCHANGED <<input_bags, i>>
           ELSE /\ out' = warned
                /\ input_bags' = bags
                /\ i' = 1
                /\ pc' = "compress_bag"
                /\ ret' = ret
    /\ UNCHANGED <<fs, args, bag_files, tested, time_ranges, overlap_start,
                   overlap_end, success_count, local, response, opened>>

\* decompress.py lines 50-79
DecompressMain ==
    /\ pc = "decompress_main"
    /\ LET bags == valid_input_bags(fs, args.input_bags)
           warned == out \cup InputWarnings(fs, args.input_bags)
       IN  IF bags = <<>>
           THEN /\ out' = warned \cup {<<"No valid bag files found", <<>>>>}
                /\ Return(1)
                /\ UNCHANGED <<input_bags, i>>
           ELSE IF AmbiguousOutput(args, bags)
           THEN /\ out' = warned \cup {<<"Cannot specify output name", <<>>>>}
                /\ Return(1)
                /\ UNCHANGED <<input_bags, i>>
           ELSE /\ out' = warned
                /\ input_bags' = bags
                /\ i' = 1
                /\ pc' = "decompress_bag"
                /\ ret' = ret
    /\ UNCHANGED <<fs, args, bag_files, tested, time_ranges, overlap_start,
                   overlap_end, success_count, local, response, opened>>

\* `ros2 bag info` on the input, `ros2 bag convert`, and the comparison of the
\* message counts when the input's count was read (compress.py lines 126-141,
\* 205-290; decompress.py lines 99-168): the file system afterwards, whether
\* the bag counts as converted, and the commands run
Converted(f, a, input, output, counted, outcome) ==
    LET written == IF outcome = "ok" THEN f[input].recs
                   ELSE SubSeq(f[input].recs, 1, Len(f[input].recs) - 1)
    IN  [fs |-> IF outcome = "failed" THEN f
                ELSE [f EXCEPT ![output] = [f[input] EXCEPT !.recs = written]],
         ok |-> outcome # "failed" /\ (counted => Len(written) = Len(f[input].recs)),
         ran |-> IF a.validate THEN <<<<"info", input>>, <<"convert", input>>>>
                 ELSE <<<<"convert", input>>>>]

\* one pass of compress.py's loop (lines 120-147)
CompressBag ==
    /\ pc = "compress_bag"
    /\ \E counted \in IF args.validate /\ fs[input_bag].ok THEN BOOLEAN ELSE {FALSE},
          outcome \in ConvertOutcomes :
          LET got == Converted(fs, args, input_bag, compressed_bag(args, input_bag),
                               counted, outcome)
          IN  /\ fs' = got.fs
              /\ opened' = opened \o got.ran
              /\ success_count' = IF got.ok THEN success_count + 1 ELSE success_count
              /\ out' = IF got.ok THEN out
                        ELSE out \cup {<<"Failed to compress", input_bag>>}
    /\ IF i = Len(input_bags) THEN pc' = "compress_summary" /\ i' = 0
       ELSE pc' = "compress_bag" /\ i' = i + 1
    /\ UNCHANGED <<args, bag_files, input_bags, tested, time_ranges, overlap_start,
                   overlap_end, local, response, ret>>

\* one pass of decompress.py's loop (lines 80-85)
DecompressBag ==
    /\ pc = "decompress_bag"
    /\ \E counted \in IF args.validate /\ fs[input_bag].ok THEN BOOLEAN ELSE {FALSE},
          outcome \in ConvertOutcomes :
          LET got == Converted(fs, args, input_bag, decompressed_bag(args, input_bag),
                               counted, outcome)
          IN  /\ fs' = got.fs
              /\ opened' = opened \o got.ran
              /\ success_count' = IF got.ok THEN success_count + 1 ELSE success_count
              /\ out' = IF got.ok THEN out
                        ELSE out \cup {<<"Failed to decompress", input_bag>>}
    /\ IF i = Len(input_bags) THEN pc' = "decompress_summary" /\ i' = 0
       ELSE pc' = "decompress_bag" /\ i' = i + 1
    /\ UNCHANGED <<args, bag_files, input_bags, tested, time_ranges, overlap_start,
                   overlap_end, local, response, ret>>

\* compress.py line 153
CompressExitCode(count, total) == IF count = total THEN 0 ELSE 1

\* decompress.py line 89
DecompressExitCode(count, total) == IF count = total THEN 0 ELSE 1

\* compress.py lines 149-153
CompressSummary ==
    /\ pc = "compress_summary"
    /\ out' = IF Len(input_bags) > 1 THEN out \cup {<<"Compression summary", <<>>>>} ELSE out
    /\ Return(CompressExitCode(success_count, Len(input_bags)))
    /\ UNCHANGED <<fs, args, bag_files, input_bags, tested, time_ranges, overlap_start,
                   overlap_end, i, success_count, local, response, opened>>

\* decompress.py lines 87-89
DecompressSummary ==
    /\ pc = "decompress_summary"
    /\ out' = IF Len(input_bags) > 1 THEN out \cup {<<"Decompression summary", <<>>>>} ELSE out
    /\ Return(DecompressExitCode(success_count, Len(input_bags)))
    /\ UNCHANGED <<fs, args, bag_files, input_bags, tested, time_ranges, overlap_start,
                   overlap_end, i, success_count, local, response, opened>>

\* a run of any verb
VerbsInit == (InitRun /\ InitEnv) \/ InitSplit \/ InitCompress

VerbsNext ==
    \/ Discover
    \/ Resolve
    \/ Overlap
    \/ Report
    \/ Check
    \/ CropCollision
    \/ CropRange
    \/ CropWriter
    \/ CropReader
    \/ CropTopics
    \/ CropCopy
    \/ CropCopyFails
    \/ CropDone
    \/ Summary
    \/ SplitMain
    \/ SplitInfo
    \/ SplitConvert
    \/ SplitReplace
    \/ SplitSummary
    \/ CompressMain
    \/ CompressBag
    \/ CompressSummary
    \/ DecompressMain
    \/ DecompressBag
    \/ DecompressSummary

Verbs == VerbsInit /\ [][VerbsNext]_vars


---------------------------------------------------------------------------
(* FrameIdFilter (filter/frame_id.py), driven as FilterVerb drives a filter: *)
(* set_args, filter_topic for the topics of the bag, filter_msg for its      *)
(* messages.  In these runs `args` is the command line of the filter and     *)
(* `local` holds the filter object's fields (_topic_map, _msg_module) next   *)
(* to the driver's: the bag's topic metadata in the order it is passed, the  *)
(* message passed last and what filter_msg returned for it.                  *)

\* message types: with header and child_frame_id, with header only, with
\* neither, and one that get_message cannot load
FrameTypes == {"nav_msgs/msg/Odometry", "sensor_msgs/msg/Imu", "std_msgs/msg/String"}
UnknownType == "unknown_msgs/msg/X"
HasHeader(type) == type \in {"nav_msgs/msg/Odometry", "sensor_msgs/msg/Imu"}
HasChild(type) == type = "nav_msgs/msg/Odometry"
FrameIds == {"a", "c"}

\* a message object of the type whose frame ids are f; <<>> is a missing field
MakeMsg(type, f) ==
    [type |-> type,
     frame_id |-> IF HasHeader(type) THEN <<f>> ELSE <<>>,
     child_frame_id |-> IF HasChild(type) THEN <<f>> ELSE <<>>]

\* rclpy's serialize_message: the bytes of the message's fields, laid out as
\* its type says
serialize_message(msg) == [layout |-> msg.type, cdr |-> <<msg.frame_id, msg.child_frame_id>>]

\* rclpy's deserialize_message(data, module): the message, when the bytes were
\* laid out by that type; with another type the bytes are read by the wrong
\* layout, which raises (<<>>) or gives some message of the module's type
deserialize_message(data, module) ==
    IF module = data.layout
    THEN {<<[type |-> module, frame_id |-> data.cdr[1], child_frame_id |-> data.cdr[2]]>>}
    ELSE {<<>>} \cup {<<MakeMsg(module, f)>> : f \in FrameIds}

\* an old:new argument, split at its first colon (lines 35-37, 40-42); a
\* value without a colon has one part
OldNew == {<<"a", "b">>, <<"*", "b">>}
NoColon == <<"ab">>

FilterArgs(topic, frame_id, child_frame_id) ==
    [topic |-> topic, frame_id |-> frame_id, child_frame_id |-> child_frame_id]

\* __init__ (lines 14-17); _topic_map does not exist before set_args
NewFilter(topics) ==
    [_topic_map |-> <<>>, _msg_module |-> <<>>, topics |-> topics,
     msg |-> <<>>, result |-> <<>>]

\* the bag's topic metadata, in the order the driver passes it
TopicOrders == {<<"t1">>, <<"t1", "t2">>, <<"t2", "t1">>}

InitFilter ==
    /\ pc = "set_args"
    /\ \E names \in TopicOrders, type \in [Topics -> FrameTypes \cup {UnknownType}] :
          local = NewFilter([k \in DOMAIN names |-> [name |-> names[k], type |-> type[names[k]]]])
    /\ \E topic \in TopicOrders, spec \in OldNew \cup {NoColon}, fr \in BOOLEAN, ch \in BOOLEAN :
          args = FilterArgs(topic,
                            IF fr THEN [k \in DOMAIN topic |-> spec] ELSE <<>>,
                            IF ch THEN [k \in DOMAIN topic |-> spec] ELSE <<>>)
    /\ fs = EmptyFs
    /\ bag_files = <<>>
    /\ input_bags = <<>>
    /\ tested = {}
    /\ time_ranges = <<>>
    /\ overlap_start = 0
    /\ overlap_end = 0
    /\ i = 0
    /\ success_count = 0
    /\ response = "none"
    /\ opened = <<>>
    /\ out = {}
    /\ ret = <<>>

\* the mapping of topic k (lines 33-43)
mapping(a, k) ==
    [frame_id |-> IF a.frame_id = <<>> THEN <<>> ELSE a.frame_id[k],
     child_frame_id |-> IF a.child_frame_id = <<>> THEN <<>> ELSE a.child_frame_id[k]]

\* set_args raises (lines 26-27, 35-36, 40-41)
set_args_raises(a) ==
    \/ a.frame_id = <<>> /\ a.child_frame_id = <<>>
    \/ \E k \in DOMAIN a.frame_id : Len(a.frame_id[k]) < 2
    \/ \E k \in DOMAIN a.child_frame_id : Len(a.child_frame_id[k]) < 2

\* self._topic_map after the loop of lines 32-44; a topic named twice keeps
\* its last mapping
topic_map(a) ==
    [t \in {a.topic[k] : k \in DOMAIN a.topic} |->
        mapping(a, CHOOSE k \in DOMAIN a.topic :
                      /\ a.topic[k] = t
                      /\ \A j \in DOMAIN a.topic : a.topic[j] = t => j <= k)]

\* set_args (lines 24-44)
SetArgs ==
    /\ pc = "set_args"
    /\ IF set_args_raises(args)
       THEN /\ out' = out \cup {<<"RuntimeError", <<>>>>}
            /\ Return(1)
            /\ UNCHANGED <<local, i>>
       ELSE /\ local' = [local EXCEPT !._topic_map = topic_map(args)]
            /\ i' = 1
            /\ pc' = "filter_topic"
            /\ UNCHANGED <<out, ret>>
    /\ UNCHANGED <<fs, args, bag_files, input_bags, tested, time_ranges, overlap_start,
                   overlap_end, success_count, response, opened>>

\* filter_topic (lines 46-53) for a type that get_message loads
filter_topic(self, topic_metadata) ==
    IF topic_metadata.name \in DOMAIN self._topic_map
    THEN [self EXCEPT !._msg_module = <<topic_metadata.type>>]
    ELSE self

\* the driver passes topic i of the bag to filter_topic
FilterTopic ==
    /\ pc = "filter_topic"
    /\ LET topic_metadata == local.topics[i]
       IN  IF /\ topic_metadata.name \in DOMAIN local._topic_map
              /\ topic_metadata.type = UnknownType
           THEN /\ out' = out \cup {<<"RuntimeError", <<topic_metadata.name>>>>}
                /\ Return(1)
                /\ UNCHANGED <<local, i>>
           ELSE /\ local' = filter_topic(local, topic_metadata)
                /\ IF i = Len(local.topics) THEN pc' = "filter_msg" /\ i' = 0
                   ELSE pc' = "filter_topic" /\ i' = i + 1
                /\ UNCHANGED <<out, ret>>
    /\ UNCHANGED <<fs, args, bag_files, input_bags, tested, time_ranges, overlap_start,
                   overlap_end, success_count, response, opened>>

\* the patch of lines 62-71
patch(msg, m) ==
    [msg EXCEPT
       !.frame_id = IF m.frame_id # <<>> /\ msg.frame_id # <<>>
                       /\ (m.frame_id[1] = "*" \/ msg.frame_id = <<m.frame_id[1]>>)
                    THEN <<m.frame_id[2]>> ELSE @,
       !.child_frame_id = IF m.child_frame_id # <<>> /\ msg.child_frame_id # <<>>
                             /\ (m.child_frame_id[1] = "*"
                                   \/ msg.child_frame_id = <<m.child_frame_id[1]>>)
                          THEN <<m.child_frame_id[2]>> ELSE @]

\* filter_msg (lines 55-73): the results it can give for msg, <<>> when it
\* raises
filter_msg(self, msg) ==
    IF msg[1] \in DOMAIN self._topic_map
    THEN IF self._msg_module = <<>> THEN {<<>>}
         ELSE {IF m = <<>> THEN <<>>
               ELSE <<<<msg[1], serialize_message(patch(m[1], self._topic_map[msg[1]])), msg[3]>>>>
                  : m \in deserialize_message(msg[2], self._msg_module[1])}
    ELSE {<<msg>>}

\* the messages a bag with these topics can hold
Messages(topics) ==
    {<<topics[k].name, serialize_message(MakeMsg(topics[k].type, f)), t>> :
        k \in DOMAIN topics, f \in FrameIds, t \in {Step}}

\* the driver passes the next message of the bag to filter_msg
FilterMsg ==
    /\ pc = "filter_msg"
    /\ i < MaxRecs
    /\ \E msg \in Messages(local.topics) :
          \E result \in filter_msg(local, msg) :
             /\ local' = [local EXCEPT !.msg = <<msg>>, !.result = result]
             /\ IF result = <<>>
                THEN /\ out' = out \cup {<<"RuntimeError", <<msg[1]>>>>}
                     /\ Return(1)
                     /\ i' = i
                ELSE /\ i' = i + 1
                     /\ UNCHANGED <<pc, out, ret>>
    /\ UNCHANGED <<fs, args, bag_files, input_bags, tested, time_ranges, overlap_start,
                   overlap_end, success_count, response, opened>>

\* the bag is read to its end
FilterEnd ==
    /\ pc = "filter_msg"
    /\ Return(0)
    /\ UNCHANGED <<fs, args, bag_files, input_bags, tested, time_ranges, overlap_start,
                   overlap_end, i, success_count, local, response, opened, out>>

FilterNext ==
    \/ SetArgs
    \/ FilterTopic
    \/ FilterMsg
    \/ FilterEnd

Filter == InitFilter /\ [][FilterNext]_vars


---------------------------------------------------------------------------
(* Properties *)

SetMax(S) == CHOOSE m \in S : \A x \in S : x <= m
SetMin(S) == CHOOSE m \in S : \A x \in S : m <= x

\* the exact nanosecond count of a datetime
ExactNs(dt) == dt * NsPerUs

\* t lies in the overlap window, both ends included
InWindow(t) == ExactNs(overlap_start) <= t /\ t <= ExactNs(overlap_end)

\* the steps on which _crop_bag returns True
CopyStep == pc = "crop_range" /\ success_count' = success_count + 1
FilterDoneStep == pc = "crop_copy" /\ success_count' = success_count + 1

\* C1: in crop mode the run returns 0 only if every discovered archive was
\* cropped; a batch with a failed or skipped archive returns 1.
C1_ExitZeroOnlyOnFullSuccess ==
    (pc = "done" /\ args.crop /\ ret = <<0>>)
        => (bag_files # <<>> /\ success_count = Len(bag_files))

\* C2: once computed, the overlap window starts at the latest start and ends at
\* the earliest end of exactly the archives whose range resolves; with one
\* such archive the window is that archive's range.
C2_WindowIsMaxStartMinEnd ==
    pc \in {"check", "report"} =>
        LET got == [k \in 1..Len(bag_files) |-> get_start_end_timestamps(fs[bag_files[k]])]
            resolved == {k \in 1..Len(bag_files) : got[k].ok}
        IN  /\ resolved # {}
            /\ overlap_start = SetMax({got[k].start : k \in resolved})
            /\ overlap_end = SetMin({got[k].end : k \in resolved})
            /\ \A k \in resolved :
                  resolved = {k} => overlap_start = got[k].start /\ overlap_end = got[k].end

\* C2's case: two archives resolved to ranges that differ at both ends
C2_Witness ==
    /\ pc \in {"check", "report"}
    /\ Len(time_ranges) = 2
    /\ time_ranges[1][1] < time_ranges[2][1]
    /\ time_ranges[1][2] < time_ranges[2][2]

\* C3: when a crop of an archive succeeds, by copy or by filtered rewrite, every
\* record of the output has a timestamp inside the overlap window.
C3_CroppedRecordsInsideWindow ==
    [][(CopyStep \/ FilterDoneStep) =>
          \A k \in DOMAIN fs'[local.output_path].recs :
              InWindow(fs'[local.output_path].recs[k].t)]_vars

\* C4: when a filtered rewrite finishes, the output holds exactly the source's
\* records whose timestamp lies in the window, both ends included, in source
\* order.
C4_FilteredOutputIsWindowSubsequence ==
    [][FilterDoneStep =>
          fs'[local.output_path].recs =
              SelectSeq(fs[bag_path].recs, LAMBDA rec : InWindow(rec.t))]_vars

\* the positions of a crop-mode run before the first _crop_bag call
PreCrop == {"main", "resolve", "overlap", "check"}

\* C5 as claimed: a crop-mode run that ends without cropping (no valid archive,
\* no range resolved, or an empty overlap) returns 1, leaves the file system as
\* it was, and has opened no reader and no writer.
C5_NoCropNoReaderNoWriter ==
    [][(args.crop /\ pc \in PreCrop) =>
          /\ (pc = "main" /\ pc' # "done" => bag_files' # <<>>)
          /\ (pc = "overlap" /\ pc' # "done" => time_ranges # <<>>)
          /\ (pc = "check" /\ pc' # "done" => ~(overlap_start > overlap_end))
          /\ (pc' # "crop" => fs' = fs)
          /\ (pc' = "done" => ret' = <<1>> /\ opened' = <<>>)]_vars

\* C5, amended: such a run returns 1, leaves the file system as it was, opens
\* no writer and reads no record; a reader is opened only by the range
\* resolver's fallback, on archives whose metadata.yaml is empty or unparsable.
C5_NoCropNoOutputNoWriter ==
    [][(args.crop /\ pc \in PreCrop) =>
          /\ (pc = "main" /\ pc' # "done" => bag_files' # <<>>)
          /\ (pc = "overlap" /\ pc' # "done" => time_ranges # <<>>)
          /\ (pc = "check" /\ pc' # "done" => ~(overlap_start > overlap_end))
          /\ (pc' # "crop" => fs' = fs)
          /\ (pc' = "done" =>
                /\ ret' = <<1>>
                /\ local' = NoLocal
                /\ \A k \in DOMAIN opened' :
                      /\ opened'[k][1] = "reader"
                      /\ fs[opened'[k][2]].meta \in {"empty", "bad"})]_vars

\* C5's case: two resolved ranges that do not overlap, the run refused
C5_Witness ==
    /\ pc = "done"
    /\ args.crop
    /\ Len(time_ranges) = 2
    /\ overlap_start > overlap_end
    /\ ret = <<1>>
    /\ ~fs[args.output_dir].exists

\* C6: both modes call the overlap absent exactly when start > end; a window
\* with start = end is present, and crop mode does not refuse it.
C6_AbsentIffStartAfterEnd ==
    [][/\ (pc = "check" => ((pc' = "done") <=> (overlap_start > overlap_end)))
       /\ (pc = "report" =>
             ((<<"Warning: No temporal overlap found", <<>>>> \in out')
                 <=> (overlap_start > overlap_end)))]_vars

\* the archive's range lies in the window to within the tolerance
WithinTolerance(got) ==
    /\ ExactNs(overlap_start) <= ExactNs(got.start) + Tolerance
    /\ ExactNs(got.end) - Tolerance <= ExactNs(overlap_end)

\* C7 as claimed: an archive whose range lies in the window to within 10 ns is
\* copied whole, and _crop_bag opens no writer and no reader.
C7_ContainedIsCopiedNothingOpened ==
    [][(pc = "crop_range" /\ get_start_end_timestamps(fs[bag_path]).ok
            /\ WithinTolerance(get_start_end_timestamps(fs[bag_path]))) =>
          /\ fs' = [fs EXCEPT ![local.output_path] = fs[bag_path]]
          /\ success_count' = success_count + 1
          /\ opened' = opened]_vars

\* C7, amended: such an archive is copied whole (same records, same topics),
\* no writer is opened and no record is read; the only reader _crop_bag opens
\* is the range resolver's fallback, when metadata.yaml is empty or unparsable.
C7_ContainedIsCopiedNoWriter ==
    [][(pc = "crop_range" /\ get_start_end_timestamps(fs[bag_path]).ok
            /\ WithinTolerance(get_start_end_timestamps(fs[bag_path]))) =>
          /\ fs' = [fs EXCEPT ![local.output_path] = fs[bag_path]]
          /\ success_count' = success_count + 1
          /\ local' = NoLocal
          /\ opened' \in {opened, Append(opened, <<"reader", bag_path>>)}
          /\ (fs[bag_path].meta = "ok" => opened' = opened)]_vars

\* C7's case: a bag has been copied to its output path
C7_Witness ==
    \E p \in SrcPaths :
        /\ <<"Copying", p>> \in out
        /\ fs[p].recs # <<>>
        /\ fs[OutputPath(args.output_dir, p)] = fs[p]

\* C8: an archive whose range equals the window is copied, never rewritten;
\* the filtered rewrite is entered only for an archive that starts more than
\* 10 ns before the window or ends more than 10 ns after it.
C8_EqualRangeIsCopied ==
    [][pc = "crop_range" =>
          LET got == get_start_end_timestamps(fs[bag_path])
          IN  /\ (got.ok /\ got.start = overlap_start /\ got.end = overlap_end
                    => pc' # "crop_writer" /\ success_count' = success_count + 1
                       /\ fs'[local.output_path] = fs[bag_path])
              /\ (pc' = "crop_writer"
                    => \/ ExactNs(got.start) + Tolerance < ExactNs(overlap_start)
                       \/ ExactNs(got.end) - Tolerance > ExactNs(overlap_end))]_vars

\* C8's case: one batch copied a bag and rewrote another
C8_Witness ==
    \E p \in SrcPaths, q \in SrcPaths :
        /\ <<"Copying", p>> \in out
        /\ <<"Cropped bag saved", q>> \in out
        /\ \E k \in DOMAIN time_ranges :
              time_ranges[k] = <<overlap_start, overlap_end, p>>

\* C9: when the output path exists and --overwrite is not given, the operator
\* is asked; on a refusal or an end of input _crop_bag returns False, nothing on
\* disk changes, and the batch goes on with the next archive.
C9_DeclinedOverwriteSkipsArchive ==
    [][(pc = "crop" /\ fs[OutputPath(args.output_dir, bag_path)].exists
            /\ ~args.overwrite) =>
          /\ <<"Overwrite?", OutputPath(args.output_dir, bag_path)>> \in out'
          /\ (response' \notin Accepting =>
                /\ fs' = fs
                /\ success_count' = success_count
                /\ <<"Skipping", bag_path>> \in out'
                /\ <<"Error cropping", bag_path>> \notin out'
                /\ ret' = ret
                /\ IF i < Len(bag_files) THEN pc' = "crop" /\ i' = i + 1
                   ELSE pc' = "summary")]_vars

\* C9's case: the first archive was skipped on a refusal, the second cropped
C9_Witness ==
    /\ Len(bag_files) = 2
    /\ <<"Skipping", bag_files[1]>> \in out
    /\ response \notin Accepting
    /\ fs[OutputPath(args.output_dir, bag_files[1])] = OldOutput
    /\ <<"Copying", bag_files[2]>> \in out

\* what discovery must return for one root
Expected(root) ==
    IF is_bag_directory(fs, root) THEN {root}
    ELSE {p \in SrcPaths : Len(p) = Len(root) + 1 /\ IsPrefix(root, p)
                            /\ is_bag_directory(fs, p)}

Occurrences(s, x) == Cardinality({k \in DOMAIN s : s[k] = x})

\* C10: discovery looks one level below each root: a root that is an archive
\* gives itself alone and its subdirectories are not tested; any other root
\* gives its immediate subdirectories that are archives; nothing deeper is
\* tested or returned.
C10_DiscoveryOneLevelDeep ==
    pc # "main" =>
        /\ \A t \in tested :
              \E k \in DOMAIN args.bags :
                  \/ t = args.bags[k]
                  \/ /\ Len(t) = Len(args.bags[k]) + 1
                     /\ IsPrefix(args.bags[k], t)
                     /\ ~is_bag_directory(fs, args.bags[k])
        /\ ((\A k \in DOMAIN args.bags : fs[args.bags[k]].exists) =>
              \A p \in AllPaths :
                  Occurrences(bag_files, p) =
                      Cardinality({k \in DOMAIN args.bags : p \in Expected(args.bags[k])}))

\* C10's case: a root that is no archive, with an archive directly below it
\* and another one two levels down
C10_Witness ==
    /\ pc = "resolve"
    /\ args.bags = <<<<"r">>>>
    /\ bag_files = <<A>>
    /\ is_bag_directory(fs, <<"r", "b", "a">>)
    /\ ~is_bag_directory(fs, B)

\* the archive below the subdirectory r/b of the root r
Nested == <<"r", "b", "a">>

InBagFiles(p) == \E k \in DOMAIN bag_files : bag_files[k] = p
IsInput(p) == \E k \in DOMAIN args.bags : args.bags[k] = p
InputsExist == \A k \in DOMAIN args.bags : fs[args.bags[k]].exists

Origins(p) == {k \in DOMAIN args.bags : p \in Expected(args.bags[k])}

\* C12: discovery's result holds no path twice, whatever the input paths
\* (a path given twice, a directory together with an archive inside it), it
\* keeps the order of the input paths, and existing paths that are no archive
\* are left out without failing the run.
C12_DiscoveryDeduplicatedInOrder ==
    (pc # "main" /\ InputsExist) =>
        /\ \A p \in AllPaths : Occurrences(bag_files, p) <= 1
        /\ \A j \in DOMAIN bag_files, k \in DOMAIN bag_files :
              j < k => \E a \in Origins(bag_files[j]), b \in Origins(bag_files[k]) : a <= b
        /\ \A p \in AllPaths : Origins(p) # {} => InBagFiles(p)
        /\ \A k \in DOMAIN bag_files : is_bag_directory(fs, bag_files[k])

\* the kinds of message that are a summary
Summaries == {"Temporal Overlap Summary", "Successfully cropped"}

\* C13: when an input path does not exist, at whatever position, the run
\* ends with exit code 1 in its first step: no range is resolved, no overlap
\* reported, no output directory created and no archive cropped.
C13_MissingPathFailsRun ==
    [][(pc = "main" /\ ~InputsExist) =>
          /\ pc' = "done"
          /\ ret' = <<1>>
          /\ \E k \in DOMAIN args.bags :
                ~fs[args.bags[k]].exists /\ <<"Error", args.bags[k]>> \in out'
          /\ bag_files' = <<>>
          /\ time_ranges' = <<>>
          /\ opened' = <<>>
          /\ \A m \in out' : m[1] \notin Summaries
          /\ fs' = fs
          /\ ~fs'[args.output_dir].exists
          /\ success_count' = 0]_vars

\* C13's case: a valid archive first, a path that does not exist second, in
\* crop mode, and the run is over
C13_Witness ==
    /\ pc = "done"
    /\ args.crop
    /\ args.bags = <<A, Missing>>
    /\ is_bag_directory(fs, A)
    /\ ret = <<1>>
    /\ <<"Error", Missing>> \in out

\* C14: for an archive whose metadata.yaml is empty, unparsable or incomplete
\* (the mapping lacks starting_time or duration, or is no mapping at all) the
\* range comes from the reader fallback: a reader is opened on the archive and
\* the range recorded is the one the reader reports.  (An archive without
\* metadata.yaml is never discovered.)
C14_IncompleteDescriptorFallsBack ==
    [][(pc = "resolve" /\ fs[bag_files[i]].meta # "ok") =>
          LET fallback == get_timestamps_using_reader(fs[bag_files[i]])
          IN  /\ opened' = Append(opened, <<"reader", bag_files[i]>>)
              /\ time_ranges' =
                    IF fallback.ok
                    THEN Append(time_ranges, <<fallback.start, fallback.end, bag_files[i]>>)
                    ELSE time_ranges]_vars

\* the range of the bag directory d can be resolved: its metadata.yaml is a
\* mapping, or the fallback reader opens on its storage
Resolvable(d) ==
    \/ d.meta \in {"ok", "no_start", "no_duration"}
    \/ d.meta \in {"empty", "bad"} /\ (d.db3 > 0 \/ d.mcap > 0) /\ d.ok

RangePaths(ranges) == {ranges[k][3] : k \in DOMAIN ranges}

\* C15: a range that cannot be resolved does not stop the batch.  Each pass
\* of the loop goes on to the next archive; the archive that failed is named
\* in an error message and gets no entry in time_ranges, every other archive
\* gets its entry; the run ends after the loop (exit code 1) exactly when
\* time_ranges is empty, and otherwise the window is the max/min over the
\* entries; report mode prints every entry and returns 0 (unless a plot
\* that was asked for raises).
C15_ResolutionFailureIsolated ==
    [][/\ (pc = "resolve" =>
             /\ ret' = ret
             /\ IF i < Len(bag_files) THEN pc' = "resolve" /\ i' = i + 1
                ELSE pc' = "overlap"
             /\ SubSeq(time_ranges', 1, Len(time_ranges)) = time_ranges
             /\ IF Resolvable(fs[bag_files[i]])
                THEN /\ Len(time_ranges') = Len(time_ranges) + 1
                     /\ time_ranges'[Len(time_ranges')][3] = bag_files[i]
                     /\ out' \subseteq out \cup fallback_warning(fs[bag_files[i]])
                ELSE /\ time_ranges' = time_ranges
                     /\ <<"Error processing", bag_files[i]>> \in out')
       /\ (pc = "overlap" =>
             /\ RangePaths(time_ranges) =
                   {bag_files[k] : k \in {j \in DOMAIN bag_files : Resolvable(fs[bag_files[j]])}}
             /\ \A k \in DOMAIN bag_files :
                   ~Resolvable(fs[bag_files[k]]) => <<"Error processing", bag_files[k]>> \in out
             /\ IF time_ranges = <<>> THEN pc' = "done" /\ ret' = <<1>>
                ELSE /\ pc' \in {"check", "report"}
                     /\ overlap_start' = SetMax({time_ranges[k][1] : k \in DOMAIN time_ranges})
                     /\ overlap_end' = SetMin({time_ranges[k][2] : k \in DOMAIN time_ranges}))
       /\ (pc = "report" =>
             /\ (<<"Error", <<"plot">>>> \notin out' => ret' = <<0>>)
             /\ \A p \in RangePaths(time_ranges) : <<"Bag", p>> \in out')]_vars

\* C15's case: of two archives the first failed and the second resolved, and
\* the report was printed
C15_Witness ==
    /\ pc = "done"
    /\ ret = <<0>>
    /\ Len(bag_files) = 2
    /\ ~Resolvable(fs[bag_files[1]])
    /\ <<"Error processing", bag_files[1]>> \in out
    /\ RangePaths(time_ranges) = {bag_files[2]}
    /\ <<"Bag", bag_files[2]>> \in out
    /\ <<"Bag", bag_files[1]>> \notin out

\* the positions of the run inside one call of _crop_bag
InCropBag == {"crop", "crop_range", "crop_writer", "crop_reader", "crop_topics", "crop_copy"}

\* the step on which a call of _crop_bag ends: it returns, or it raises
CropEnds == pc \in InCropBag /\ local' = NoLocal /\ (i' # i \/ pc' = "summary")

\* C16: the crop loop makes one attempt for every entry of bag_files, in
\* order, whatever the earlier attempts gave: the first attempt is for entry
\* 1, a call for entry i that ends -- cropped, skipped or with an exception --
\* is followed by the call for entry i + 1, or by the summary after the last;
\* an attempt that ends without a crop and without a skip is reported as an
\* error for that archive; no attempt ends the run.
C16_EveryArchiveAttemptedOnce ==
    [][/\ (pc = "check" /\ pc' # "done" => pc' = "crop" /\ i' = 1)
       /\ (pc' = "crop" => pc \in InCropBag \cup {"check"})
       /\ (pc \in InCropBag =>
             /\ ret' = ret
             /\ bag_files' = bag_files
             /\ pc' \in InCropBag \cup {"summary"}
             /\ (pc' = "summary" => i = Len(bag_files))
             /\ (pc' = "crop" => i < Len(bag_files) /\ i' = i + 1)
             /\ (pc' \notin {"crop", "summary"} => i' = i)
             /\ (CropEnds /\ success_count' = success_count
                          /\ <<"Skipping", bag_path>> \notin out'
                    => <<"Error cropping", bag_path>> \in out'))]_vars

\* C16's case: the copy loop of the first archive raised, and the second
\* archive was attempted and cropped
C16_Witness ==
    /\ pc = "done"
    /\ Len(bag_files) = 2
    /\ bag_files[1] # bag_files[2]
    /\ <<"Error cropping", bag_files[1]>> \in out
    /\ fs[bag_files[1]].ok /\ fs[bag_files[1]].meta = "ok"
    /\ fs[OutputPath(args.output_dir, bag_files[1])].exists
    /\ <<"Cropped bag saved", bag_files[1]>> \notin out
    /\ success_count = 1
    /\ fs[OutputPath(args.output_dir, bag_files[2])].exists

\* the valid bags among split's inputs
NamedBags == valid_input_bags(fs, args.input_bags)

\* what a run that fails before any I/O leaves behind
NothingReadOrWritten == fs' = fs /\ opened' = <<>> /\ pc' = "done" /\ ret' = <<1>>

\* the crop output of overlap: the base name with its suffix, in output_dir
CropOutputDerived ==
    (pc = "crop" /\ pc' = "crop_range") =>
        local'.output_path = Append(args.output_dir, Basename(bag_path) \o "_cropped")

\* C17 as claimed: several sources with one explicit output name fail before
\* anything is read or written; in every other case the output path of an
\* archive is its source's name with a fixed suffix.
C17_OutputDerivedUnlessAmbiguous ==
    [][/\ (pc = "split_main" /\ Len(NamedBags) > 1 /\ args.output # NoOutput
              => NothingReadOrWritten)
       /\ (pc = "split_info" =>
              local'.output_bag \in {Suffixed(input_bag, "_split"),
                                     Suffixed(input_bag, "_temp_split")})
       /\ CropOutputDerived]_vars

\* C17, amended: split with several valid sources and an output name fails
\* before anything is read or written; with one source and an output name the
\* output is that name; without an output name it is the source's path with
\* the suffix _split (_temp_split for --inplace).  overlap has no output name:
\* the crop output is always the base name with _cropped, in output_dir.
C17_OutputPathPolicy ==
    [][/\ (pc = "split_main" /\ Len(NamedBags) > 1 /\ args.output # NoOutput
              => NothingReadOrWritten)
       /\ (pc = "split_info" =>
              /\ ~(Len(input_bags) > 1 /\ args.output # NoOutput)
              /\ local'.output_bag =
                    IF args.output # NoOutput THEN args.output
                    ELSE IF args.inplace THEN Suffixed(input_bag, "_temp_split")
                    ELSE Suffixed(input_bag, "_split"))
       /\ CropOutputDerived]_vars

\* C17's case: split was given two valid bags and an output name, and is over
C17_Witness ==
    /\ pc = "done"
    /\ args.input_bags = <<A, B>>
    /\ is_valid_bag(fs, A) /\ is_valid_bag(fs, B)
    /\ args.output = ExplicitOutput
    /\ <<"Cannot specify output name", <<>>>> \in out
    /\ ret = <<1>>
    /\ opened = <<>>
    /\ \A p \in SplitOutPaths : ~fs[p].exists

\* C18: with --plot a failure of the plot, a missing matplotlib or any other
\* error, is no more than a warning: the run returns 0 and the summaries are
\* printed.
C18_PlotFailureIsWarning ==
    [][(pc = "report" /\ args.plot) =>
          /\ ret' = <<0>>
          /\ <<"Temporal Overlap Summary", <<>>>> \in out'
          /\ BagSummary(time_ranges) \subseteq out'
          /\ <<"Error", <<"plot">>>> \notin out']_vars

\* the step writes a record to the output
WriteStep == pc = "crop_copy" /\ fs'[local.output_path].recs # fs[local.output_path].recs

\* C19: on the filtered rewrite the writer holds every topic of the source
\* before it is given the first record, no record is written before the copy
\* loop, and the finished output has exactly the source's topics, whether or
\* not a record of each topic was copied.
C19_TopicsCreatedBeforeRecords ==
    [][/\ (pc \in {"crop_reader", "crop_topics"} =>
              fs[local.output_path].recs = <<>> /\ fs'[local.output_path].recs = <<>>)
       /\ (WriteStep => fs[local.output_path].topics = fs[bag_path].topics)
       /\ (FilterDoneStep =>
              /\ fs'[local.output_path].topics = fs[bag_path].topics
              /\ fs[bag_path].topics = Topics)]_vars

\* C19's case: a filtered rewrite is finished, its output has no record at all
\* and every topic
C19_Witness ==
    \E p \in SrcPaths :
        /\ <<"Cropped bag saved", p>> \in out
        /\ fs[p].recs # <<>>
        /\ fs[OutputPath(args.output_dir, p)].recs = <<>>
        /\ fs[OutputPath(args.output_dir, p)].topics = Topics

\* the reader and writer sessions _crop_bag holds open
OpenSessions ==
    (IF local.writer THEN {<<"writer", local.output_path>>} ELSE {})
        \cup (IF local.reader THEN {<<"reader", bag_files[i]>>} ELSE {})

AllFiles(d) == 1..(d.db3 + d.mcap)

\* C21: the reader fallback on an archive of several storage files gives the
\* range from the earliest start to the latest end over all of its files; no
\* file is left out.
C21_FallbackCoversEveryFile ==
    [][(pc = "resolve" /\ fs[bag_files[i]].meta \in {"empty", "bad"}
            /\ fs[bag_files[i]].ok) =>
          LET d == fs[bag_files[i]]
          IN  /\ file_paths(d) = AllFiles(d)
              /\ time_ranges' = Append(time_ranges,
                    <<FromTimestamp(SetMin({file_start(d, k) : k \in AllFiles(d)})),
                      FromTimestamp(SetMax({file_end(d, k) : k \in AllFiles(d)})),
                      bag_files[i]>>)]_vars

\* the warnings that announce the reader fallback
FallbackWarnings ==
    {<<"Warning: metadata.yaml is empty or invalid", <<>>>>,
     <<"Warning: Error parsing metadata.yaml", <<>>>>}

\* C22: when the resolver goes from the descriptor to the reader it has
\* printed a warning, and it fails only after the reader was tried too.
C22_FallbackAnnouncedAndTried ==
    [][pc = "resolve" =>
          /\ (opened' # opened => out' \cap FallbackWarnings # {})
          /\ (time_ranges' = time_ranges =>
                opened' = Append(opened, <<"reader", bag_files[i]>>))]_vars

\* the records of a sequence, as a set
RecSet(recs) == {recs[k] : k \in DOMAIN recs}

\* C23: a crop that goes on onto an output path that exists removes what is
\* there, all of it, before it writes: past the collision test nothing exists
\* at the output path, the file system changes there only on a positive
\* decision (--overwrite, or a confirming answer), and the finished output
\* holds the source's topics and records of the source only.
C23_ExistingOutputRemovedFirst ==
    [][/\ (pc = "crop" =>
              /\ (pc' = "crop_range" =>
                    \A q \in AllPaths :
                        IsPrefix(OutputPath(args.output_dir, bag_path), q) => ~fs'[q].exists)
              /\ (fs' # fs =>
                    /\ fs[OutputPath(args.output_dir, bag_path)].exists
                    /\ (args.overwrite \/ response' \in Accepting)
                    /\ pc' = "crop_range"))
       /\ (CopyStep \/ FilterDoneStep =>
              /\ fs'[local.output_path].topics = fs[bag_path].topics
              /\ RecSet(fs'[local.output_path].recs) \subseteq RecSet(fs[bag_path].recs))]_vars

\* C23's case: the operator confirmed the overwrite of an old output, and the
\* rewrite onto that path is finished
C23_Witness ==
    \E p \in SrcPaths :
        /\ ~args.overwrite
        /\ response \in Accepting
        /\ <<"Overwrite?", OutputPath(args.output_dir, p)>> \in out
        /\ <<"Cropped bag saved", p>> \in out
        /\ fs[OutputPath(args.output_dir, p)].exists
        /\ fs[OutputPath(args.output_dir, p)] # OldOutput
        /\ fs[OutputPath(args.output_dir, p)].topics = Topics

\* the call of _crop_bag that ends with this step returns True
ReturnsTrue ==
    \/ pc = "crop_range" /\ fs[bag_path].exists /\ fs'[local.output_path] = fs[bag_path]
    \/ pc = "crop_copy" /\ local.pos > Len(fs[bag_path].recs)

\* C24: the summary of a crop batch gives succeeded/total, succeeded being the
\* number of calls of _crop_bag that returned True and total the number of
\* discovered archives; every call that did not return True has printed a
\* message with the archive's name.
C24_SummaryCountsSuccesses ==
    [][/\ (pc = "check" /\ pc' = "crop" => success_count' = 0)
       /\ (pc \in InCropBag =>
              /\ success_count' = success_count + (IF CropEnds /\ ReturnsTrue THEN 1 ELSE 0)
              /\ success_count' <= i
              /\ (CropEnds /\ ~ReturnsTrue =>
                    \/ <<"Skipping", bag_path>> \in out'
                    \/ <<"Error cropping", bag_path>> \in out'))
       /\ (pc = "summary" =>
              /\ <<"Successfully cropped", <<success_count, Len(bag_files)>>>> \in out'
              /\ 0 <= success_count /\ success_count <= Len(bag_files))]_vars

\* C24's case: a batch of two archives, one skipped and one cropped, summed up
\* as 1/2
C24_Witness ==
    /\ pc = "done"
    /\ Len(bag_files) = 2
    /\ <<"Skipping", bag_files[1]>> \in out
    /\ <<"Successfully cropped", <<1, 2>>>> \in out
    /\ <<"Copying", bag_files[2]>> \in out

\* all records of the bag directory d carry one timestamp
ZeroDuration(d) == \A j \in DOMAIN d.recs, k \in DOMAIN d.recs : d.recs[j].t = d.recs[k].t

\* C25: every range the resolver returns has end >= start, from the
\* descriptor and from the reader fallback alike, and an archive of zero
\* duration has start = end.
C25_RangeEndNotBeforeStart ==
    [][(pc \in {"resolve", "crop_range"}) =>
          LET d == fs[bag_files[i]]
              got == get_start_end_timestamps(d)
          IN  /\ (got.ok => got.start <= got.end)
              /\ (got.ok /\ ZeroDuration(d) => got.start = got.end)
              /\ (pc = "resolve" /\ got.ok =>
                    time_ranges' = Append(time_ranges, <<got.start, got.end, bag_files[i]>>))
              /\ \A k \in DOMAIN time_ranges' : time_ranges'[k][1] <= time_ranges'[k][2]]_vars

\* C25's case: an archive with a single record resolved to start = end, next
\* to one with start < end
C25_Witness ==
    /\ pc = "done"
    /\ Len(time_ranges) = 2
    /\ Len(fs[time_ranges[1][3]].recs) = 1
    /\ time_ranges[1][1] = time_ranges[1][2]
    /\ time_ranges[2][1] < time_ranges[2][2]

\* C26: within one crop batch distinct source archives are given distinct
\* output paths, so that no crop removes or overwrites the output of a
\* sibling of the same batch.
C26_DistinctOutputPaths ==
    pc \in {"crop", "crop_range", "crop_writer", "crop_reader", "crop_topics",
            "crop_copy", "summary"} =>
       \A j \in DOMAIN bag_files, k \in DOMAIN bag_files :
          bag_files[j] # bag_files[k] =>
             OutputPath(args.output_dir, bag_files[j]) # OutputPath(args.output_dir, bag_files[k])

\* a step that ends _crop_bag with an exception: the range is not resolved,
\* the writer or the reader is not opened, or a read or write raises
CropFails ==
    /\ pc \in {"crop_range", "crop_writer", "crop_reader", "crop_copy"}
    /\ pc' \in {"crop", "summary"}
    /\ success_count' = success_count

\* C27: a crop attempt that fails with an error leaves the archive's output
\* path as it was before the attempt: no partial output, no lost output.
C27_FailedCropLeavesOutputAsItWas ==
    [][CropFails => fs'[local.output_path] = local.before]_vars

\* the records a bag of the split scenarios holds when the run starts
OriginalRecs(p) == IF p = A THEN Recs(Long) ELSE Recs(Late)

\* a complete copy of the bag p is on disk: the bag itself or its finished
\* split output
CompleteCopy(f, p) ==
    \E q \in {p, Suffixed(p, "_temp_split")} :
       f[q].exists /\ f[q].meta = "ok" /\ f[q].recs = OriginalRecs(p)

\* C28: with split --inplace the original is removed only after the split
\* succeeded and passed every enabled validation (output exists, metadata
\* not empty, equal message counts); a failed split leaves the original
\* untouched, and a complete copy of the bag's data is on disk at all times.
C28_InplaceKeepsACompleteCopy ==
    [][(pc \in {"split_info", "split_convert", "split_replace"} /\ args.inplace) =>
          /\ (fs'[input_bag] # fs[input_bag] =>
                /\ pc = "split_replace"
                /\ local.split_ok
                /\ fs[local.output_bag].exists
                /\ fs[local.output_bag].meta = "ok"
                /\ (args.validate =>
                      Len(fs[local.output_bag].recs) = Len(fs[input_bag].recs)))
          /\ (pc = "split_replace" /\ ~local.split_ok => fs'[input_bag] = fs[input_bag])
          /\ \A k \in DOMAIN input_bags : CompleteCopy(fs', input_bags[k])]_vars

\* where a run of split, compress or decompress stands
MainPcs == {"split_main", "compress_main", "decompress_main"}
LoopPcs == {"split_info", "split_convert", "split_replace", "compress_bag", "decompress_bag"}
SummaryPcs == {"split_summary", "compress_summary", "decompress_summary"}

\* `ros2 bag convert` was run on the bag
WasConverted(bag) == \E j \in DOMAIN opened : opened[j] = <<"convert", bag>>

\* C29: split, compress and decompress return 0 iff every valid input bag
\* was processed successfully; a failed bag makes the run return 1 while the
\* remaining bags are still processed; a run with no valid input bag, or with
\* an output name for several bags, returns 1 before any bag is converted.
C29_ExitZeroIffAllBagsConverted ==
    [][/\ (pc \in LoopPcs \cup SummaryPcs /\ pc' = "done" =>
              (ret' = <<0>> <=> success_count' = Len(input_bags)))
       /\ (pc \in LoopPcs /\ i < Len(input_bags) => pc' # "done")
       /\ (pc \in SummaryPcs => \A k \in DOMAIN input_bags : WasConverted(input_bags[k]))
       /\ (pc \in MainPcs /\ (NamedBags = <<>> \/ (Len(NamedBags) > 1 /\ args.output # NoOutput))
              => NothingReadOrWritten)]_vars

\* the type of the bag's topic
TypeOfTopic(name) ==
    local.topics[CHOOSE k \in DOMAIN local.topics : local.topics[k].name = name].type

\* a step on which the driver passed a message to filter_msg
FilterMsgStep == pc = "filter_msg" /\ local'.msg # <<>> /\ (i' = i + 1 \/ local'.result = <<>>)

\* C30: after any sequence of filter_topic calls over the bag's topics, a
\* message on a mapped topic is deserialized and serialized again with the
\* type of its own topic, also when mapped topics differ in type; a message
\* on another topic is returned unchanged; topic name and timestamp are
\* never altered.
C30_OwnTypePerMappedTopic ==
    [][FilterMsgStep =>
          LET msg == local'.msg[1]
              mapped == msg[1] \in DOMAIN local._topic_map
          IN  /\ (mapped => /\ local._msg_module = <<TypeOfTopic(msg[1])>>
                            /\ local'.result # <<>>
                            /\ local'.result[1][2].layout = TypeOfTopic(msg[1]))
              /\ (~mapped => local'.result = <<msg>>)
              /\ (local'.result # <<>> =>
                     /\ local'.result[1][1] = msg[1]
                     /\ local'.result[1][3] = msg[3])]_vars

====
